---- MODULE Spec2Model ----
(***************************************************************************)
(* Model of src/src/dedupe_images.py: main() collects the image paths,     *)
(* find_duplicates() hashes them and scans all unordered pairs,            *)
(* process_duplicates() walks the pairs, chooses a keeper, deletes or      *)
(* moves the other file and writes the CSV report.                         *)
(***************************************************************************)
EXTENDS Integers, Sequences, FiniteSets, TLC

VARIABLES
  pc,          \* position of the run: "main", "hashing", "found", "process",
               \* "done", or "raised" when an exception has left the program
  images,      \* main: the list returned by collect_images
  hi,          \* find_duplicates: position of the hashing loop in images
  metadata,    \* find_duplicates: the dict path -> (hash, resolution, size),
               \* as its items in insertion order
  dupes,       \* find_duplicates: the list of (p1, p2, dist)
  move_dir,    \* process_duplicates: TRUE when a move directory is given
  csv_path,    \* process_duplicates: TRUE when a report path is given
  di,          \* process_duplicates: position of the loop in dupes
  handled,     \* process_duplicates: the set of removed paths
  report_rows, \* process_duplicates: the rows appended so far
  decisions,   \* the results of choose_keeper in call order, as printed in
               \* the [DUPLICATE] lines, with the pair (a, b) they come from
  inPlace,     \* the collected files that are still at their original path
  quarantine,  \* the files of move_dir: base filename -> original path
  csvFile,     \* the data rows of the report file written by write_csv
  summary,     \* the count of the [SUMMARY] line, -1 before it is printed
  raised       \* the call whose exception ended the run, "none" otherwise

vars == <<pc, images, hi, metadata, dupes, move_dir, csv_path, di, handled,
          report_rows, decisions, inPlace, quarantine, csvFile, summary, raised>>

---------------------------------------------------------------------------
(* Bounds of the model *)

MaxImages == 3
NumDirs == 2
NumNames == 2
MaxRes == 2
MaxSize == 2
HashBits == 7

(* Program constant *)
HASH_THRESHOLD == 6

---------------------------------------------------------------------------
(* Paths, hashes and records *)

\* a path is <<directory, base filename>>
AllPaths == (1..NumDirs) \X (1..NumNames)

\* os.path.basename
Basename(p) == p[2]

\* a perceptual hash is the set of its set bit positions
HashPool == { 1..k : k \in {0, HASH_THRESHOLD, HashBits} }

\* imagehash subtraction: the number of differing bits
Hamming(h1, h2) == Cardinality((h1 \ h2) \cup (h2 \ h1))

\* the successful results of image_info: (hash, resolution, filesize)
Infos == [h : HashPool, res : 1..MaxRes, size : 1..MaxSize]

Range(s) == { s[i] : i \in DOMAIN s }

\* the lists collect_images can return: every file once, the files of one
\* directory next to each other
ImageLists ==
  UNION { { s \in [1..n -> AllPaths] :
              /\ \A i, j \in 1..n : i # j => s[i] # s[j]
              /\ \A i, j, k \in 1..n :
                   (i < j /\ j < k /\ s[i][1] = s[k][1]) => s[j][1] = s[i][1] }
          : n \in 0..MaxImages }

\* metadata is the dict in insertion order: a sequence of <<path, info>> items
Keys(md) == { md[i][1] : i \in DOMAIN md }

Meta(md, p) == md[CHOOSE i \in DOMAIN md : md[i][1] = p][2]

\* a new key put in front of the items
DictSet_Prepend(md, p, info) ==
  IF p \in Keys(md)
    THEN [i \in DOMAIN md |-> IF md[i][1] = p THEN <<p, info>> ELSE md[i]]
    ELSE <<<<p, info>>>> \o md

\* metadata[img] = info
DictSet(md, p, info) ==
  IF p \in Keys(md)
    THEN [i \in DOMAIN md |-> IF md[i][1] = p THEN <<p, info>> ELSE md[i]]
    ELSE Append(md, <<p, info>>)

\* the result of image_info for a file it cannot read
None == [h |-> {}, res |-> 0, size |-> 0]

\* the assignment without the test of info
Store_Untested(md, p, info) == DictSet(md, p, info)

\* if info: metadata[img] = info
Store(md, p, info) == IF info = None THEN md ELSE DictSet(md, p, info)

---------------------------------------------------------------------------
(* find_duplicates: the comparison loop *)

\* the comparison with < in place of <=
IsDuplicate_Strict(dist) == dist < HASH_THRESHOLD

\* dist <= HASH_THRESHOLD
IsDuplicate(dist) == dist <= HASH_THRESHOLD

\* every other position, as a product of the items with themselves would pair
Partners_AllOthers(i, n) == (1..n) \ {i}

\* the positions j paired with position i by combinations(items, 2)
Partners(i, n) == (i + 1)..n

RECURSIVE ScanFrom(_, _, _)
\* the pairs emitted from position (i, j) on, in the order of the loop
ScanFrom(md, i, j) ==
  IF i > Len(md) THEN <<>>
  ELSE IF j > Len(md) THEN ScanFrom(md, i + 1, 1)
  ELSE LET dist == Hamming(md[i][2].h, md[j][2].h)
           rest == ScanFrom(md, i, j + 1)
       IN  IF j \in Partners(i, Len(md)) /\ IsDuplicate(dist)
             THEN <<<<md[i][1], md[j][1], dist>>>> \o rest
             ELSE rest

FindPairs(md) == ScanFrom(md, 1, 1)

---------------------------------------------------------------------------
(* choose_keeper *)

\* the file size compared before the resolution
choose_keeper_SizeFirst(a, b, md) ==
  LET res_a == Meta(md, a).res
      res_b == Meta(md, b).res
      size_a == Meta(md, a).size
      size_b == Meta(md, b).size
  IN  IF size_a > size_b THEN <<a, b>>
      ELSE IF size_b > size_a THEN <<b, a>>
      ELSE IF res_a >= res_b THEN <<a, b>>
      ELSE <<b, a>>

\* the size comparison turned around
choose_keeper_SmallerSize(a, b, md) ==
  LET res_a == Meta(md, a).res
      res_b == Meta(md, b).res
      size_a == Meta(md, a).size
      size_b == Meta(md, b).size
  IN  IF res_a > res_b THEN <<a, b>>
      ELSE IF res_b > res_a THEN <<b, a>>
      ELSE IF size_a <= size_b THEN <<a, b>>
      ELSE <<b, a>>

\* the size comparison with > in place of >=
choose_keeper_StrictSize(a, b, md) ==
  LET res_a == Meta(md, a).res
      res_b == Meta(md, b).res
      size_a == Meta(md, a).size
      size_b == Meta(md, b).size
  IN  IF res_a > res_b THEN <<a, b>>
      ELSE IF res_b > res_a THEN <<b, a>>
      ELSE IF size_a > size_b THEN <<a, b>>
      ELSE <<b, a>>

\* the first resolution comparison with >= in place of >
choose_keeper_FirstOnEqualRes(a, b, md) ==
  LET res_a == Meta(md, a).res
      res_b == Meta(md, b).res
      size_a == Meta(md, a).size
      size_b == Meta(md, b).size
  IN  IF res_a >= res_b THEN <<a, b>>
      ELSE IF res_b > res_a THEN <<b, a>>
      ELSE IF size_a >= size_b THEN <<a, b>>
      ELSE <<b, a>>

choose_keeper(a, b, md) ==
  LET res_a == Meta(md, a).res
      res_b == Meta(md, b).res
      size_a == Meta(md, a).size
      size_b == Meta(md, b).size
  IN  IF res_a > res_b THEN <<a, b>>
      ELSE IF res_b > res_a THEN <<b, a>>
      ELSE IF size_a >= size_b THEN <<a, b>>
      ELSE <<b, a>>

---------------------------------------------------------------------------
(* process_duplicates *)

\* the test of the first member only
AlreadyHandled_OnlyFirst(a, b, h) == a \in h

\* the test of the second member only
AlreadyHandled_OnlySecond(a, b, h) == b \in h

\* a in handled or b in handled
AlreadyHandled(a, b, h) == a \in h \/ b \in h

\* a set that still holds a path from an earlier call
NewHandled_Stale == {images[1]}

\* handled = set()
NewHandled == {}

RECURSIVE ReduceFrom(_, _, _, _)
\* the Decisions the loop makes from pair k on with the removed set h
ReduceFrom(pairs, md, k, h) ==
  IF k > Len(pairs) THEN <<>>
  ELSE LET a == pairs[k][1]
           b == pairs[k][2]
           kr == choose_keeper(a, b, md)
       IN  IF a \in h \/ b \in h
             THEN ReduceFrom(pairs, md, k + 1, h)
             ELSE <<[a |-> a, b |-> b, keep |-> kr[1], remove |-> kr[2],
                     dist |-> pairs[k][3]]>>
                  \o ReduceFrom(pairs, md, k + 1, h \cup {kr[2]})

\* the Decisions of the loop as a function of dupes and meta alone
Reduce(pairs, md) == ReduceFrom(pairs, md, 1, {})

NoFile == <<0, 0>>

EmptyDir == [n \in 1..NumNames |-> NoFile]

\* the row with the kept and the removed file exchanged
ReportRow_Swapped(keep, remove, dist, action, md) ==
  [kept_file |-> remove, duplicate_file |-> keep,
   kept_resolution |-> Meta(md, remove).res,
   duplicate_resolution |-> Meta(md, keep).res,
   kept_filesize |-> Meta(md, remove).size,
   duplicate_filesize |-> Meta(md, keep).size,
   hash_distance |-> dist, action |-> action]

\* the row with the byte sizes in the resolution columns
ReportRow_WrongColumn(keep, remove, dist, action, md) ==
  [kept_file |-> keep, duplicate_file |-> remove,
   kept_resolution |-> Meta(md, keep).size,
   duplicate_resolution |-> Meta(md, remove).size,
   kept_filesize |-> Meta(md, keep).size,
   duplicate_filesize |-> Meta(md, remove).size,
   hash_distance |-> dist, action |-> action]

\* one row of the report
ReportRow(keep, remove, dist, action, md) ==
  [kept_file |-> keep, duplicate_file |-> remove,
   kept_resolution |-> Meta(md, keep).res,
   duplicate_resolution |-> Meta(md, remove).res,
   kept_filesize |-> Meta(md, keep).size,
   duplicate_filesize |-> Meta(md, remove).size,
   hash_distance |-> dist, action |-> action]

\* the action applied to the keeper
AfterAction_Keeper(fs, keep, remove) == fs \ {keep}

\* the files in place after os.remove(remove) or shutil.move(remove, dest)
AfterAction(fs, keep, remove) == fs \ {remove}

\* every candidate pair counted, the skipped ones included
SummaryCount_AllPairs(h) == Len(dupes)

RECURSIVE Reverse(_)
Reverse(s) == IF s = <<>> THEN <<>> ELSE Reverse(Tail(s)) \o <<Head(s)>>

RECURSIVE ApplyFrom(_, _, _, _, _, _)
\* the actions of the Decisions ds from position k on, each followed by its
\* audit row, on the files in place fs and the directory dir
ApplyFrom(ds, k, fs, dir, mv, md) ==
  IF k > Len(ds) THEN [fs |-> fs, dir |-> dir, rows |-> <<>>]
  ELSE LET d == ds[k]
           r == ApplyFrom(ds, k + 1, AfterAction(fs, d.keep, d.remove),
                          IF mv THEN [dir EXCEPT ![Basename(d.remove)] = d.remove]
                                ELSE dir,
                          mv, md)
       IN  [r EXCEPT !.rows =
              <<ReportRow(d.keep, d.remove, d.dist,
                          IF mv THEN "moved" ELSE "deleted", md)>> \o r.rows]

\* the Decisions applied last first
Apply_ReverseOrder(ds, fs, dir, mv, md) ==
  ApplyFrom(Reverse(ds), 1, fs, dir, mv, md)

\* the second stage of the pipeline: the Decisions applied in emission order
Apply(ds, fs, dir, mv, md) == ApplyFrom(ds, 1, fs, dir, mv, md)

\* the number printed by the summary line: len(handled)
SummaryCount(h) == Cardinality(h)

\* the rows written last first
write_csv_Reversed(rows) == Reverse(rows)

\* write_csv: the data rows of the file, after the header row
write_csv(rows) == rows

\* the exception caught and dropped
WriteCsvRaises_Swallowed(writes, wr_ok) == FALSE

\* an exception of write_csv leaves process_duplicates: the call is made
\* (csv_path and report_rows) and open or the writer fails
WriteCsvRaises(writes, wr_ok) == writes /\ ~wr_ok

---------------------------------------------------------------------------
(* The state machine *)

Init ==
  /\ pc = "main"
  /\ images = <<>>
  /\ hi = 1
  /\ metadata = <<>>
  /\ dupes = <<>>
  /\ move_dir = FALSE
  /\ csv_path = FALSE
  /\ di = 1
  /\ handled = {}
  /\ report_rows = <<>>
  /\ decisions = <<>>
  /\ inPlace = {}
  /\ quarantine = EmptyDir
  /\ csvFile = <<>>
  /\ summary = -1
  /\ raised = "none"

\* main: images = collect_images(args.folder)
CollectImages ==
  /\ pc = "main"
  /\ \E l \in ImageLists :
       /\ images' = l
       /\ inPlace' = Range(l)
  /\ pc' = "hashing"
  /\ UNCHANGED <<hi, metadata, dupes, move_dir, csv_path, di, handled,
                 report_rows, decisions, quarantine, csvFile, summary, raised>>

\* find_duplicates: one pass of the hashing loop; image_info returns None
\* for a file it cannot read
HashImage ==
  /\ pc = "hashing"
  /\ hi <= Len(images)
  /\ \E info \in Infos \cup {None} :
       metadata' = Store(metadata, images[hi], info)
  /\ hi' = hi + 1
  /\ UNCHANGED <<pc, images, dupes, move_dir, csv_path, di, handled,
                 report_rows, decisions, inPlace, quarantine, csvFile,
                 summary, raised>>

\* find_duplicates: the comparison loop and the return
CompareImages ==
  /\ pc = "hashing"
  /\ hi > Len(images)
  /\ dupes' = FindPairs(metadata)
  /\ pc' = "found"
  /\ UNCHANGED <<images, hi, metadata, move_dir, csv_path, di, handled,
                 report_rows, decisions, inPlace, quarantine, csvFile,
                 summary, raised>>

\* main: if not dupes: return
NoDuplicates ==
  /\ pc = "found"
  /\ dupes = <<>>
  /\ pc' = "done"
  /\ UNCHANGED <<images, hi, metadata, dupes, move_dir, csv_path, di, handled,
                 report_rows, decisions, inPlace, quarantine, csvFile,
                 summary, raised>>

\* main calls process_duplicates: the fresh handled and report_rows;
\* os.makedirs(move_dir) can raise
StartProcess ==
  /\ pc = "found"
  /\ dupes # <<>>
  /\ \E mv \in BOOLEAN, csv \in BOOLEAN, mk_ok \in BOOLEAN :
       /\ move_dir' = mv
       /\ csv_path' = csv
       /\ IF mv /\ ~mk_ok
            THEN pc' = "raised" /\ raised' = "makedirs"
            ELSE pc' = "process" /\ raised' = raised
  /\ handled' = NewHandled
  /\ report_rows' = <<>>
  /\ UNCHANGED <<images, hi, metadata, dupes, di, decisions, inPlace,
                 quarantine, csvFile, summary>>

\* one pass of the loop whose pair is skipped
SkipPair ==
  /\ pc = "process"
  /\ di <= Len(dupes)
  /\ AlreadyHandled(dupes[di][1], dupes[di][2], handled)
  /\ di' = di + 1
  /\ UNCHANGED <<pc, images, hi, metadata, dupes, move_dir, csv_path, handled,
                 report_rows, decisions, inPlace, quarantine, csvFile,
                 summary, raised>>

\* one pass of the loop that resolves its pair; os.remove or shutil.move
\* raises when the file is missing or the filesystem refuses
ResolvePair ==
  /\ pc = "process"
  /\ di <= Len(dupes)
  /\ ~AlreadyHandled(dupes[di][1], dupes[di][2], handled)
  /\ LET a == dupes[di][1]
         b == dupes[di][2]
         dist == dupes[di][3]
         kr == choose_keeper(a, b, metadata)
         keep == kr[1]
         remove == kr[2]
     IN  /\ handled' = handled \cup {remove}
         /\ decisions' = Append(decisions,
              [a |-> a, b |-> b, keep |-> keep, remove |-> remove,
               dist |-> dist])
         /\ \E ok \in BOOLEAN :
              IF ok /\ remove \in inPlace
                THEN /\ inPlace' = AfterAction(inPlace, keep, remove)
                     /\ quarantine' =
                          IF move_dir
                            THEN [quarantine EXCEPT ![Basename(remove)] = remove]
                            ELSE quarantine
                     /\ report_rows' = Append(report_rows,
                          ReportRow(keep, remove, dist,
                                    IF move_dir THEN "moved" ELSE "deleted",
                                    metadata))
                     /\ di' = di + 1
                     /\ UNCHANGED <<pc, raised>>
                ELSE /\ pc' = "raised"
                     /\ raised' = "action"
                     /\ UNCHANGED <<inPlace, quarantine, report_rows, di>>
  /\ UNCHANGED <<images, hi, metadata, dupes, move_dir, csv_path, csvFile,
                 summary>>

\* after the loop: write_csv, which can raise, and the summary line
FinishRun ==
  /\ pc = "process"
  /\ di > Len(dupes)
  /\ \E wr_ok \in BOOLEAN :
       IF WriteCsvRaises(csv_path /\ report_rows # <<>>, wr_ok)
         THEN /\ pc' = "raised"
              /\ raised' = "write_csv"
              /\ UNCHANGED <<csvFile, summary>>
         ELSE /\ csvFile' = IF csv_path /\ report_rows # <<>> /\ wr_ok
                              THEN write_csv(report_rows) ELSE csvFile
              /\ summary' = SummaryCount(handled)
              /\ pc' = "done"
              /\ UNCHANGED raised
  /\ UNCHANGED <<images, hi, metadata, dupes, move_dir, csv_path, di, handled,
                 report_rows, decisions, inPlace, quarantine>>

Next ==
  \/ CollectImages
  \/ HashImage
  \/ CompareImages
  \/ NoDuplicates
  \/ StartProcess
  \/ SkipPair
  \/ ResolvePair
  \/ FinishRun

Spec == Init /\ [][Next]_vars

---------------------------------------------------------------------------
(* Properties *)

Scanned == pc \notin {"main", "hashing"}

Ended == pc \in {"done", "raised"}

\* the position of a path in the record order
Pos(md, p) == CHOOSE i \in DOMAIN md : md[i][1] = p

Res(p) == Meta(metadata, p).res

Size(p) == Meta(metadata, p).size

FullTie(a, b) == Res(a) = Res(b) /\ Size(a) = Size(b)

\* C1: within one run no path is the removed file of more than one Decision,
\* and no path has more than one audit row as the duplicate file.
C1_NoPathRemovedTwice ==
  /\ \A i, j \in DOMAIN decisions :
       i # j => decisions[i].remove # decisions[j].remove
  /\ \A i, j \in DOMAIN report_rows :
       i # j => report_rows[i].duplicate_file # report_rows[j].duplicate_file

C1_Witness ==
  /\ pc = "done"
  /\ Len(decisions) >= 2
  /\ Len(decisions) < Len(dupes)

\* C2 as stated: the removed path of a Decision is never the keeper or the
\* removed path of an earlier Decision, and every recorded keeper is in place
\* when the run ends.
C2_Original ==
  /\ \A i, j \in DOMAIN decisions :
       i < j => decisions[j].remove \notin
                  {decisions[i].keep, decisions[i].remove}
  /\ Ended => \A i \in DOMAIN decisions : decisions[i].keep \in inPlace

\* C2 amended: the removed path of a Decision is never the removed path of an
\* earlier Decision, no Decision keeps or removes a file removed earlier, the
\* keeper and the removed file of one Decision differ, and every recorded
\* keeper that no later Decision removed is in place.
C2_NoVictimReused ==
  /\ \A i, j \in DOMAIN decisions :
       i < j => /\ decisions[j].remove # decisions[i].remove
                /\ decisions[j].keep # decisions[i].remove
  /\ \A i \in DOMAIN decisions : decisions[i].keep # decisions[i].remove
  /\ \A i \in DOMAIN decisions :
       (\A j \in DOMAIN decisions : decisions[j].remove # decisions[i].keep)
         => decisions[i].keep \in inPlace

\* a keeper of an earlier Decision is the removed file of a later one
C2_Witness ==
  /\ pc = "done"
  /\ \E i, j \in DOMAIN decisions :
       /\ i < j
       /\ decisions[j].remove = decisions[i].keep
       /\ decisions[i].keep \notin inPlace
       /\ decisions[j].keep \in inPlace

\* C3: a failing delete or move does not end the run: whenever the run has
\* ended after the loop was entered, every pair has been attempted.
C3_EveryDecisionAttempted ==
  (Ended /\ raised # "makedirs") => di > Len(dupes)

\* C4: every unordered pair of distinct hashed files within the threshold is
\* emitted exactly once, in one order only, and no emitted pair has two equal
\* paths.
C4_PairEmittedOnce ==
  Scanned =>
    /\ \A p, q \in Keys(metadata) :
         (p # q /\ Hamming(Meta(metadata, p).h, Meta(metadata, q).h) <= 6)
           => Cardinality({ k \in DOMAIN dupes :
                              {dupes[k][1], dupes[k][2]} = {p, q} }) = 1
    /\ \A k \in DOMAIN dupes : dupes[k][1] # dupes[k][2]

C4_Witness ==
  /\ pc = "found"
  /\ Len(metadata) = 3
  /\ Len(dupes) >= 2

\* C5: a pair is emitted iff its Hamming distance is <= 6, and the distance
\* of an emitted triple is the Hamming distance of the two records' hashes.
C5_EmitIffWithinThreshold ==
  Scanned =>
    /\ \A i, j \in DOMAIN metadata :
         i < j =>
           ( Hamming(metadata[i][2].h, metadata[j][2].h) <= 6
             <=> \E k \in DOMAIN dupes :
                   dupes[k][1] = metadata[i][1] /\ dupes[k][2] = metadata[j][1] )
    /\ \A k \in DOMAIN dupes :
         /\ dupes[k][1] \in Keys(metadata)
         /\ dupes[k][2] \in Keys(metadata)
         /\ dupes[k][3] = Hamming(Meta(metadata, dupes[k][1]).h,
                                  Meta(metadata, dupes[k][2]).h)
         /\ dupes[k][3] <= 6

\* a pair at distance 6 is emitted and a pair at distance 7 is not
C5_Witness ==
  /\ pc = "found"
  /\ \E k \in DOMAIN dupes : dupes[k][3] = 6
  /\ \E i, j \in DOMAIN metadata :
       /\ i < j
       /\ Hamming(metadata[i][2].h, metadata[j][2].h) = 7
       /\ \A k \in DOMAIN dupes :
            {dupes[k][1], dupes[k][2]} # {metadata[i][1], metadata[j][1]}

\* C6: when the resolutions of a pair differ, the keeper is the member with
\* the strictly higher resolution.
C6_HigherResolutionKept ==
  \A i \in DOMAIN decisions :
    LET d == decisions[i]
    IN  Res(d.a) # Res(d.b) =>
          /\ {d.keep, d.remove} = {d.a, d.b}
          /\ Res(d.keep) > Res(d.remove)

\* the second member wins on resolution although it is the smaller file
C6_Witness ==
  \E i \in DOMAIN decisions :
    LET d == decisions[i]
    IN  /\ d.keep = d.b
        /\ Res(d.b) > Res(d.a)
        /\ Size(d.b) < Size(d.a)

\* C7: when the resolutions are equal and the byte sizes differ, the keeper
\* is the member with the strictly larger byte size.
C7_LargerFileKeptOnResolutionTie ==
  \A i \in DOMAIN decisions :
    LET d == decisions[i]
    IN  (Res(d.a) = Res(d.b) /\ Size(d.a) # Size(d.b)) =>
          /\ {d.keep, d.remove} = {d.a, d.b}
          /\ Size(d.keep) > Size(d.remove)

C7_Witness ==
  \E i \in DOMAIN decisions :
    LET d == decisions[i]
    IN  /\ d.keep = d.b
        /\ Res(d.a) = Res(d.b)
        /\ Size(d.b) > Size(d.a)

\* C8: when resolution and byte size are both equal, the first argument is
\* kept and the second removed; in a run the kept file is the one that comes
\* earlier in the record order.
C8_FirstArgumentKeptOnFullTie ==
  \A i \in DOMAIN decisions :
    LET d == decisions[i]
    IN  FullTie(d.a, d.b) =>
          /\ d.keep = d.a
          /\ d.remove = d.b
          /\ Pos(metadata, d.keep) < Pos(metadata, d.remove)

C8_Witness ==
  \E i \in DOMAIN decisions :
    /\ FullTie(decisions[i].a, decisions[i].b)
    /\ decisions[i].keep = decisions[i].a

\* C9: for records not tied in both attributes choose_keeper(a, b) and
\* choose_keeper(b, a) give the same result, the one of the Decision made;
\* on a full tie each call keeps its own first argument.
C9_SwapInvariantExceptFullTie ==
  /\ \A a, b \in Keys(metadata) :
       a # b =>
         IF FullTie(a, b)
           THEN /\ choose_keeper(a, b, metadata) = <<a, b>>
                /\ choose_keeper(b, a, metadata) = <<b, a>>
           ELSE choose_keeper(a, b, metadata) = choose_keeper(b, a, metadata)
  /\ \A i \in DOMAIN decisions :
       LET d == decisions[i]
       IN  choose_keeper(d.b, d.a, metadata) =
             IF FullTie(d.a, d.b) THEN <<d.b, d.a>> ELSE <<d.keep, d.remove>>

C9_Witness ==
  /\ \E i \in DOMAIN decisions :
       ~FullTie(decisions[i].a, decisions[i].b) /\ decisions[i].keep = decisions[i].b
  /\ \E a, b \in Keys(metadata) : a # b /\ FullTie(a, b)

\* C10: a pass of the loop over a pair with a member removed earlier changes
\* nothing but the loop position: no keeper choice, no file action, no change
\* of the resolved set, no audit row; a pass over any other pair makes exactly
\* one Decision.
C10_SkipRule ==
  [][ (pc = "process" /\ di <= Len(dupes)) =>
        IF dupes[di][1] \in handled \/ dupes[di][2] \in handled
          THEN /\ UNCHANGED <<handled, decisions, inPlace, quarantine,
                              report_rows, csvFile, pc>>
               /\ di' = di + 1
          ELSE /\ Len(decisions') = Len(decisions) + 1
               /\ SubSeq(decisions', 1, Len(decisions)) = decisions
               /\ {decisions'[Len(decisions')].a, decisions'[Len(decisions')].b}
                    = {dupes[di][1], dupes[di][2]}
               /\ Cardinality(handled') = Cardinality(handled) + 1
    ]_vars

\* a pair has been skipped and a later pair resolved
C10_Witness ==
  /\ pc = "process"
  /\ \E k \in 1..(di - 1) :
       /\ \A i \in DOMAIN decisions :
            <<decisions[i].a, decisions[i].b>> # <<dupes[k][1], dupes[k][2]>>
       /\ \E i \in DOMAIN decisions :
            \E m \in (k + 1)..(di - 1) :
              <<decisions[i].a, decisions[i].b>> = <<dupes[m][1], dupes[m][2]>>

\* three records A, B, C in this order, (A, B) and (B, C) within the
\* threshold and (A, C) beyond it
ChainCase ==
  /\ Scanned
  /\ Len(metadata) = 3
  /\ Hamming(metadata[1][2].h, metadata[2][2].h) <= 6
  /\ Hamming(metadata[2][2].h, metadata[3][2].h) <= 6
  /\ Hamming(metadata[1][2].h, metadata[3][2].h) > 6

\* the Decisions that have the path as a member of their pair
Involving(p) == { i \in DOMAIN decisions : p \in {decisions[i].a, decisions[i].b} }

\* C11 as stated: in the chain case the scanner emits exactly (A, B) and
\* (B, C), and if the first Decision keeps B and removes A then no Decision
\* involves C and C stays in place.
C11_Original ==
  ChainCase =>
    LET A == metadata[1][1]
        B == metadata[2][1]
        C == metadata[3][1]
    IN  /\ Len(dupes) = 2
        /\ <<dupes[1][1], dupes[1][2]>> = <<A, B>>
        /\ <<dupes[2][1], dupes[2][2]>> = <<B, C>>
        /\ (Len(decisions) >= 1 /\ decisions[1].keep = B /\ decisions[1].remove = A)
             => (Involving(C) = {} /\ C \in inPlace)

\* C11 amended: in the chain case the scanner emits exactly (A, B) and (B, C);
\* if the first Decision keeps A and removes B, the pair (B, C) is skipped, no
\* Decision involves C and C stays in place; if it keeps B and removes A, the
\* pair (B, C) is resolved by a second Decision between B and C.
C11_ChainFollowsFirstDecision ==
  ChainCase =>
    LET A == metadata[1][1]
        B == metadata[2][1]
        C == metadata[3][1]
    IN  /\ Len(dupes) = 2
        /\ <<dupes[1][1], dupes[1][2]>> = <<A, B>>
        /\ <<dupes[2][1], dupes[2][2]>> = <<B, C>>
        /\ (Len(decisions) >= 1 /\ decisions[1].keep = A /\ decisions[1].remove = B)
             => (Len(decisions) = 1 /\ Involving(C) = {} /\ C \in inPlace)
        /\ (Len(decisions) >= 1 /\ decisions[1].keep = B /\ decisions[1].remove = A
              /\ di > 2)
             => (Len(decisions) = 2 /\ <<decisions[2].a, decisions[2].b>> = <<B, C>>)

\* the run of a chain is complete, A was kept over B and C was left alone
C11_Witness ==
  /\ ChainCase
  /\ pc = "done"
  /\ Len(decisions) = 1
  /\ decisions[1].keep = metadata[1][1]
  /\ decisions[1].remove = metadata[2][1]
  /\ metadata[3][1] \in inPlace

\* two hashed files are near-identical: their hashes are within the threshold
Near(p, q) ==
  p # q /\ Hamming(Meta(metadata, p).h, Meta(metadata, q).h) <= 6

RECURSIVE Closure(_)
Closure(S) ==
  LET T == S \cup { q \in Keys(metadata) : \E p \in S : Near(p, q) }
  IN  IF T = S THEN S ELSE Closure(T)

\* the group of a hashed file: the files connected to it through near pairs
Group(p) == Closure({p})

\* C12 as stated: a completed run leaves exactly one file of every group in
\* place.
C12_Original ==
  pc = "done" =>
    \A p \in Keys(metadata) : Cardinality(Group(p) \cap inPlace) = 1

\* C12 amended: a completed run leaves at least one file of every group in
\* place, the files of a group left in place are pairwise beyond the threshold
\* (a group that is a chain can keep more than one file), and the files of the
\* group not in place are the removed files of the run's Decisions.
C12_GroupKeepsIndependentFiles ==
  pc = "done" =>
    \A p \in Keys(metadata) :
      /\ Group(p) \cap inPlace # {}
      /\ \A q, r \in Group(p) \cap inPlace : ~Near(q, r)
      /\ Group(p) \ inPlace = Group(p) \cap handled
      /\ Group(p) \ inPlace =
           Group(p) \cap { decisions[i].remove : i \in DOMAIN decisions }

\* a completed run that left two files of one group in place
C12_Witness ==
  /\ pc = "done"
  /\ \E p \in Keys(metadata) :
       /\ Cardinality(Group(p)) = 3
       /\ Cardinality(Group(p) \cap inPlace) = 2

\* the Decisions whose delete or move was executed
Applied == { i \in DOMAIN decisions : decisions[i].remove \notin inPlace }

\* the audit rows of a Decision
RowsOf(d) ==
  { k \in DOMAIN report_rows :
      /\ report_rows[k].kept_file = d.keep
      /\ report_rows[k].duplicate_file = d.remove
      /\ report_rows[k].hash_distance = d.dist }

\* C13: every Decision whose action was executed has exactly one audit row and
\* one file gone from its place, every row belongs to such a Decision and
\* names the action taken, a Decision whose action failed has no row, and a
\* skipped pair has no row.
C13_AuditRowPerAppliedDecision ==
  /\ Len(report_rows) = Cardinality(Applied)
  /\ Len(report_rows) = Cardinality(Range(images) \ inPlace)
  /\ \A i \in DOMAIN decisions :
       Cardinality(RowsOf(decisions[i])) = IF i \in Applied THEN 1 ELSE 0
  /\ \A k \in DOMAIN report_rows :
       /\ \E i \in Applied : k \in RowsOf(decisions[i])
       /\ report_rows[k].duplicate_file \notin inPlace
       /\ report_rows[k].kept_file # report_rows[k].duplicate_file
       /\ report_rows[k].action = IF move_dir THEN "moved" ELSE "deleted"
  /\ \A m \in 1..(di - 1) :
       (pc \in {"process", "done", "raised"}
        /\ \A i \in DOMAIN decisions :
             <<decisions[i].a, decisions[i].b>> # <<dupes[m][1], dupes[m][2]>>)
         => \A k \in DOMAIN report_rows :
              {report_rows[k].kept_file, report_rows[k].duplicate_file}
                # {dupes[m][1], dupes[m][2]}

\* a run with an audit row, a skipped pair and a Decision whose action failed
C13_Witness ==
  /\ pc = "raised"
  /\ Len(report_rows) = 1
  /\ Len(decisions) = 2
  /\ di = 3

\* the collected files that have been deleted or moved
Gone == Range(images) \ inPlace

\* C14: in every run that has ended, normally or because a later delete or
\* move failed, each file deleted or moved has an audit record, and when a
\* report path is given that record is a row of the written report.  (The run
\* ended by a failing report write is left out: it has no written report.)
C14_EveryRemovedFileReported ==
  (Ended /\ raised # "write_csv") =>
    \A p \in Gone :
      /\ \E k \in DOMAIN report_rows : report_rows[k].duplicate_file = p
      /\ csv_path => \E k \in DOMAIN csvFile : csvFile[k].duplicate_file = p

\* C15: a failing delete or move is caught: a Decision whose action failed
\* never ends the run with an exception, and the run goes on to its summary.
C15_ActionFailureIsSoft ==
  (\E i \in DOMAIN decisions : decisions[i].remove \in inPlace)
    => pc # "raised"

\* the files moved into move_dir by the run
Moved ==
  { report_rows[k].duplicate_file :
      k \in { m \in DOMAIN report_rows : report_rows[m].action = "moved" } }

\* C16: a move never replaces a file of different origin: every file moved
\* into the directory is still there under its base filename.
C16_NoSilentOverwrite ==
  \A p \in Moved : quarantine[Basename(p)] = p

\* C17: after a completed run in move mode the directory holds exactly one
\* file for each removed path, under the removed path's base filename.
C17_DirectoryHoldsEveryRemovedFile ==
  (pc = "done" /\ move_dir) =>
    /\ \A p \in handled : quarantine[Basename(p)] = p
    /\ Cardinality({ n \in DOMAIN quarantine : quarantine[n] # NoFile })
         = Cardinality(handled)

\* the pairs the loop has reached
Visited ==
  IF pc = "raised" /\ raised = "action" THEN SubSeq(dupes, 1, di)
  ELSE SubSeq(dupes, 1, di - 1)

\* C18: the Decision sequence of a run is a function of the pair sequence and
\* the record set alone: at every point of the loop it is the reduction of the
\* pairs reached so far, started from an empty removed set, and in a
\* completed run it is the reduction of the whole sequence, whatever the mode
\* and the state of the filesystem.
C18_DecisionsDeterminedByInput ==
  pc \in {"process", "done", "raised"} =>
    /\ decisions = Reduce(Visited, metadata)
    /\ pc = "done" => decisions = Reduce(dupes, metadata)

\* a completed run over three pairs, one of them skipped
C18_Witness ==
  /\ pc = "done"
  /\ Len(dupes) = 3
  /\ Len(decisions) = 2
  /\ decisions = Reduce(dupes, metadata)

\* the position of a path in the list of collected images
ImagePos(p) == CHOOSE i \in DOMAIN images : images[i] = p

\* C19: the records are in the order in which their paths were supplied, and
\* the pairs are emitted by the nested traversal of that order: the first
\* member of a pair precedes the second, and the pairs are in strictly
\* increasing lexicographic order of (position of first, position of second).
C19_ScannerOrder ==
  /\ \A i \in DOMAIN metadata : metadata[i][1] \in Range(images)
  /\ \A i, j \in DOMAIN metadata :
       i < j => ImagePos(metadata[i][1]) < ImagePos(metadata[j][1])
  /\ Scanned =>
       /\ \A k \in DOMAIN dupes :
            Pos(metadata, dupes[k][1]) < Pos(metadata, dupes[k][2])
       /\ \A k, l \in DOMAIN dupes :
            k < l =>
              \/ Pos(metadata, dupes[k][1]) < Pos(metadata, dupes[l][1])
              \/ /\ dupes[k][1] = dupes[l][1]
                 /\ Pos(metadata, dupes[k][2]) < Pos(metadata, dupes[l][2])

\* three records of a list that starts in the second directory, all paired
C19_Witness ==
  /\ pc = "found"
  /\ Len(dupes) = 3
  /\ images[1][1] = 2

\* the files the hashing loop has passed
Hashed == { images[i] : i \in 1..(hi - 1) }

\* the files image_info could not read
Unreadable ==
  { p \in Hashed : p \notin Keys(metadata) \/ Meta(metadata, p) = None }

\* C20: a file that image_info cannot read gets no record, the loop goes on
\* to the remaining files without an exception, and the file is in no
\* candidate pair, Decision or audit row and is never deleted or moved.
C20_UnreadableFileLeftAlone ==
  /\ \A i \in DOMAIN metadata : metadata[i][2] \in Infos
  /\ pc = "hashing" => raised = "none"
  /\ Scanned => (hi = Len(images) + 1 /\ Hashed = Range(images))
  /\ \A p \in Unreadable :
       /\ p \in inPlace
       /\ p \notin handled
       /\ \A k \in DOMAIN dupes : p \notin {dupes[k][1], dupes[k][2]}
       /\ \A i \in DOMAIN decisions :
            p \notin {decisions[i].keep, decisions[i].remove}
       /\ \A k \in DOMAIN report_rows :
            p \notin {report_rows[k].kept_file, report_rows[k].duplicate_file}
       /\ \A n \in DOMAIN quarantine : quarantine[n] # p

\* the first file could not be read and the two files after it were resolved
C20_Witness ==
  /\ pc = "done"
  /\ Len(images) = 3
  /\ images[1] \in Unreadable
  /\ Len(metadata) = 2
  /\ Len(report_rows) = 1

\* the position in dupes of the pair of a Decision
PairIndex(d) ==
  CHOOSE m \in DOMAIN dupes : <<dupes[m][1], dupes[m][2]>> = <<d.a, d.b>>

\* C21: the written report has one data row per audit record, in the order
\* in which the actions were applied: row k is the row of the k-th Decision,
\* and the Decisions follow the order of their pairs in the scanner's
\* sequence.
C21_ReportRowsInActionOrder ==
  /\ (pc = "done" /\ csv_path /\ report_rows # <<>>) =>
       /\ Len(csvFile) = Len(report_rows)
       /\ Len(csvFile) = Len(decisions)
       /\ \A k \in DOMAIN csvFile :
            /\ csvFile[k] = report_rows[k]
            /\ csvFile[k].kept_file = decisions[k].keep
            /\ csvFile[k].duplicate_file = decisions[k].remove
            /\ csvFile[k].hash_distance = decisions[k].dist
       /\ \A k, l \in DOMAIN csvFile :
            k < l => PairIndex(decisions[k]) < PairIndex(decisions[l])
  /\ csvFile # <<>> => (pc = "done" /\ csv_path)

\* a written report of two rows
C21_Witness ==
  /\ pc = "done"
  /\ Len(csvFile) = 2
  /\ csvFile[1] # csvFile[2]

\* C22: a failure to write the report is a hard error: the run ends by the
\* exception of write_csv, with no summary line, and a run that completes
\* normally with a report requested and audit rows present has written it.
C22_ReportWriteFailureIsHard ==
  /\ raised = "write_csv" =>
       /\ pc = "raised"
       /\ summary = -1
       /\ csv_path /\ report_rows # <<>>
  /\ (pc = "done" /\ csv_path /\ report_rows # <<>>) =>
       /\ raised = "none"
       /\ csvFile # <<>>

\* a run whose actions all succeeded and whose report write failed
C22_Witness ==
  /\ pc = "raised"
  /\ raised = "write_csv"
  /\ Len(report_rows) >= 1
  /\ Len(report_rows) = Len(decisions)
  /\ summary = -1

\* C23: the number of the summary line of a completed run is the number of
\* files deleted or moved, the number of Decisions and the number of audit
\* rows; at every step of the loop the resolved set has as many members as
\* Decisions were made so far.
C23_SummaryCountsRemovedFiles ==
  /\ pc \in {"process", "done", "raised"} =>
       /\ Cardinality(handled) = Len(decisions)
       /\ handled = {decisions[k].remove : k \in DOMAIN decisions}
  /\ summary # -1 =>
       /\ pc = "done"
       /\ summary = Cardinality(Gone)
       /\ summary = Len(decisions)
       /\ summary = Len(report_rows)
       /\ Gone = handled

\* a completed run of three candidate pairs, one skipped, two files removed
C23_Witness ==
  /\ pc = "done"
  /\ summary = 2
  /\ Len(dupes) = 3
  /\ Cardinality(Gone) = 2

\* C24: after a completed run, in which every action succeeded, no two files
\* still in place form a candidate pair: every pair the scanner emitted has
\* lost at least one member, and no two hashed files in place are within the
\* threshold of each other.
C24_NoCandidatePairLeftInPlace ==
  (pc = "done" /\ raised = "none") =>
    /\ \A k \in DOMAIN dupes :
         dupes[k][1] \notin inPlace \/ dupes[k][2] \notin inPlace
    /\ \A p, q \in Keys(metadata) \cap inPlace : ~Near(p, q)

\* a completed run with a skipped pair, a removed file and two files in place
C24_Witness ==
  /\ pc = "done"
  /\ summary = 1
  /\ Len(dupes) = 2
  /\ Cardinality(Keys(metadata) \cap inPlace) = 2

\* C25: the run never removes every copy: the keeper of a Decision is not
\* the removed path of an earlier Decision, and at every point of every run
\* each group of files connected through candidate pairs has a member that
\* was never removed, which is still in place.
C25_NeverRemovesEveryCopy ==
  /\ \A i \in DOMAIN decisions :
       decisions[i].keep \notin {decisions[j].remove : j \in 1..(i - 1)}
  /\ pc \in {"process", "done", "raised"} =>
       \A p \in Keys(metadata) :
         /\ Group(p) \ handled # {}
         /\ (Group(p) \ handled) \cap inPlace # {}

\* a group of three files of which two Decisions removed two
C25_Witness ==
  /\ Ended
  /\ Len(decisions) = 2
  /\ Len(dupes) = 3
  /\ \A p \in Keys(metadata) : Cardinality(Group(p)) = 3
  /\ Cardinality(handled) = 2
  /\ Cardinality(inPlace) = 1

\* the step makes a Decision
Decides == Len(decisions') = Len(decisions) + 1

\* C26: frame of one Decision's action, the directory being apart from the
\* scanned files: the step of a Decision changes the files in place at most
\* by taking away its removed path, changes the directory only in move mode
\* and only at the base filename of the removed path, and leaves the written
\* report alone; its keeper stays in place; no other step of the loop changes
\* the filesystem; and at every point each scanned file that is not the
\* removed path of a Decision is at its original path.
C26_DecisionFrame ==
  /\ [](Scanned => Range(images) \ handled \subseteq inPlace)
  /\ [][ IF Decides
           THEN LET d == decisions'[Len(decisions')]
                IN  /\ inPlace' \in {inPlace, inPlace \ {d.remove}}
                    /\ d.keep \in inPlace /\ d.keep \in inPlace'
                    /\ \A n \in DOMAIN quarantine :
                         n # Basename(d.remove) => quarantine'[n] = quarantine[n]
                    /\ ~move_dir => quarantine' = quarantine
                    /\ (move_dir /\ inPlace' # inPlace) =>
                         quarantine'[Basename(d.remove)] = d.remove
                    /\ quarantine' # quarantine => inPlace' # inPlace
                    /\ csvFile' = csvFile
           ELSE pc # "main" => (inPlace' = inPlace /\ quarantine' = quarantine)
       ]_vars

\* a Decision executed in move mode: the removed file is in the directory,
\* the keeper and a file outside the pair are in place
C26_Witness ==
  /\ pc = "process"
  /\ move_dir
  /\ Len(decisions) = 1
  /\ Len(report_rows) = 1
  /\ quarantine[Basename(decisions[1].remove)] = decisions[1].remove
  /\ decisions[1].keep \in inPlace
  /\ Cardinality(inPlace) = 2
  /\ Len(images) = 3

\* the row carries the resolution and the byte size of the records
ScanTimeValues(row) ==
  /\ row.kept_file \in Keys(metadata)
  /\ row.duplicate_file \in Keys(metadata)
  /\ row.kept_resolution = Res(row.kept_file)
  /\ row.duplicate_resolution = Res(row.duplicate_file)
  /\ row.kept_filesize = Size(row.kept_file)
  /\ row.duplicate_filesize = Size(row.duplicate_file)

\* C27: the record mapping built by the scan is read-only afterwards: no
\* step taken after the scan (skip, keeper choice, delete, move, audit
\* append, report write) adds, removes or changes an entry, and every audit
\* row, in memory and in the written report, carries the resolution and the
\* byte size of the records of its two files.
C27_RecordsReadOnlyAfterScan ==
  /\ [][Scanned => metadata' = metadata]_vars
  /\ [](/\ \A k \in DOMAIN report_rows : ScanTimeValues(report_rows[k])
        /\ \A k \in DOMAIN csvFile : ScanTimeValues(csvFile[k]))

\* a written report row whose two files differ in resolution and in size
C27_Witness ==
  /\ pc = "done"
  /\ Len(csvFile) >= 1
  /\ csvFile[1].kept_resolution > csvFile[1].duplicate_resolution
  /\ csvFile[1].kept_filesize < csvFile[1].duplicate_filesize
  /\ csvFile[1].kept_resolution # csvFile[1].kept_filesize

\* C28: the loop, which decides and acts pair by pair, is the two-stage
\* pipeline: at every point of a run the Decisions made are the reduction of
\* the pairs reached, computed from the pairs and the records alone, also
\* when the last action failed, and the files in place, the directory and
\* the audit rows are those obtained by applying the Decisions whose action
\* succeeded in emission order to the scanned files and the empty directory;
\* a completed run has reached every pair.
C28_LoopIsTwoStagePipeline ==
  pc \in {"process", "done", "raised"} =>
    LET ds == Reduce(Visited, metadata)
        applied == IF raised = "action" THEN SubSeq(ds, 1, Len(ds) - 1) ELSE ds
        r == Apply(applied, Range(images), EmptyDir, move_dir, metadata)
    IN  /\ decisions = ds
        /\ inPlace = r.fs
        /\ quarantine = r.dir
        /\ report_rows = r.rows
        /\ pc = "done" => Visited = dupes

\* a completed run in move mode whose two Decisions move files of the same
\* base filename, so that the order of application shows in the directory
C28_Witness ==
  /\ pc = "done"
  /\ move_dir
  /\ Len(dupes) = 3
  /\ Len(decisions) = 2
  /\ Basename(decisions[1].remove) = Basename(decisions[2].remove)
  /\ quarantine[Basename(decisions[2].remove)] = decisions[2].remove
  /\ Cardinality(inPlace) = 1

====
